---- MODULE Spec2Model ----
(***************************************************************************)
(* Model of main.py of Imagenet_Downloader: the batch coordinator          *)
(* (download_batch), the per-item pipeline (download_tar), the archive     *)
(* processor (extract_tar), the slot allocator (PositionManager) and the   *)
(* filesystem artifacts they leave behind across successive batch runs.    *)
(***************************************************************************)
EXTENDS Integers, Sequences, FiniteSets, TLC

\* ---------------------------------------------------------------- bounds
MaxItems == 2
MaxWorkers == 2
MaxRuns == 2
PoolItems == 3

\* ---------------------------------------------------------------- inputs
IDs == {"n001", "n002"}

NoSlot == -1

MarkerName == ".download_complete"

\* target_path, as path segments
Root == <<"data">>

AbsPath(s) == [abs |-> TRUE, segs |-> s]
RelPath(s) == [abs |-> FALSE, segs |-> s]

\* What the remote serves for each item: a tar whose entries carry a type,
\* a name and whether PIL can decode the payload.
Served(id) ==
  IF id = "n001"
    THEN << [type |-> "file", name |-> RelPath(<<"a.jpg">>), image |-> TRUE],
            [type |-> "file", name |-> RelPath(<<"..", "evil.txt">>), image |-> FALSE],
            [type |-> "file", name |-> RelPath(<<"b.txt">>), image |-> FALSE] >>
    ELSE << [type |-> "dir", name |-> RelPath(<<"sub">>), image |-> FALSE],
            [type |-> "file", name |-> AbsPath(<<"abs.txt">>), image |-> FALSE],
            [type |-> "file", name |-> RelPath(<<"c.txt">>), image |-> FALSE] >>

FileNames == {"a.jpg", "b.txt", "c.txt", MarkerName}

NoFile == [run |-> 0, kind |-> "none"]
\* the archive file at <target>/<id>.tar: its state, the run that wrote it and the
\* task whose open() created the file now at that path (0: an earlier process)
NoTar == [st |-> "none", run |-> 0, owner |-> 0]

\* ---------------------------------------------------------------- paths
Min2(a, b) == IF a < b THEN a ELSE b

IsPrefix(s, t) == Len(s) <= Len(t) /\ SubSeq(t, 1, Len(s)) = s

\* os.path.join: an absolute second component discards the first
JoinPath(a, b) == IF b.abs THEN b ELSE [abs |-> a.abs, segs |-> a.segs \o b.segs]

\* os.path.commonpath: longest common prefix of the segments as written
\* ("." and empty segments dropped, ".." NOT resolved)
CommonPath(p, q) ==
  LET n == Min2(Len(p.segs), Len(q.segs))
      agree == {k \in 0..n : SubSeq(p.segs, 1, k) = SubSeq(q.segs, 1, k)}
      best == CHOOSE k \in agree : \A j \in agree : j <= k
  IN  [abs |-> p.abs, segs |-> SubSeq(p.segs, 1, best)]

\* str.startswith on the rendered paths: the common path is a whole-segment
\* prefix of both, so it starts with dest exactly when dest is a prefix of it
StartsWith(p, d) == p.abs = d.abs /\ IsPrefix(d.segs, p.segs)

\* what the kernel does with the path on open(): ".." steps to the parent
RECURSIVE Resolve(_, _)
Resolve(done, rest) ==
  IF rest = <<>> THEN done
  ELSE IF Head(rest) = ".."
    THEN Resolve(IF done = <<>> THEN <<>> ELSE SubSeq(done, 1, Len(done) - 1), Tail(rest))
    ELSE Resolve(Append(done, Head(rest)), Tail(rest))

dest_folder(id) == AbsPath(Root \o <<id>>)

member_path(id, m) == JoinPath(dest_folder(id), m.name)

\* line 126: the guard that lets an entry through
PathAllowed(id, m) ==
  StartsWith(CommonPath(dest_folder(id), member_path(id, m)), dest_folder(id))

\* where the bytes of an entry really land
Landing(id, m) == Resolve(<<>>, member_path(id, m).segs)

LandsInItem(loc) ==
  /\ Len(loc) = Len(Root) + 2
  /\ IsPrefix(Root, loc)
  /\ loc[Len(Root) + 1] \in IDs

\* line 118: members = [m for m in tar.getmembers() if m.isfile()]
members(id) == SelectSeq(Served(id), LAMBDA m : m.type = "file")

\* ---------------------------------------------------------------- state
VARIABLES
  part_ids, num_workers, delete_tar,   \* arguments of download_batch
  run,                                 \* which invocation of the program this is
  mpc, summary, stats,                 \* the coordinator: position, summary printed, tally
  pc, idx, position, result, tallied,  \* per submitted task: pipeline position and locals
  cleaned, failedAt,                   \* per running task: did it rmtree; the step that raised
  available, in_use,                   \* PositionManager
  baseDir, dirExists, files, tar,      \* filesystem under target_path
  failLog, outside,                    \* failed_downloads.log; files outside item dirs
  downloads, markedAtStart,            \* per run: GETs issued; items marked at batch start
  extractFailed,                       \* items whose extraction raised or was cut short
  report                               \* what check_resume_status has worked out, while it prints

vars == << part_ids, num_workers, delete_tar, run, mpc, summary, stats,
           pc, idx, position, result, tallied, cleaned, failedAt,
           available, in_use, baseDir, dirExists, files, tar,
           failLog, outside, downloads, markedAtStart, extractFailed, report >>

inputs == << part_ids, num_workers, delete_tar >>
alloc == << available, in_use >>
fs == << baseDir, dirExists, files, tar, failLog, outside >>
coord == << mpc, summary, stats >>

Tasks == 1..Len(part_ids)

RECURSIVE SeqsUpTo(_)
SeqsUpTo(n) ==
  IF n = 0 THEN {<<>>}
  ELSE LET shorter == SeqsUpTo(n - 1)
       IN  shorter \cup {Append(s, i) : s \in {x \in shorter : Len(x) = n - 1}, i \in IDs}

RECURSIVE Range0(_)
Range0(n) == IF n = 0 THEN <<>> ELSE Append(Range0(n - 1), n - 1)

Marked(id) == files[id][MarkerName].run > 0

NoReport == [at |-> "none", completed |-> <<>>, pending |-> <<>>,
             failed |-> [i \in IDs |-> 0]]

Init ==
  /\ part_ids \in SeqsUpTo(MaxItems)
  /\ num_workers \in 1..MaxWorkers
  /\ delete_tar \in BOOLEAN
  /\ run = 1
  /\ mpc = "start"
  /\ summary = FALSE
  /\ stats = [success |-> 0, failed |-> 0, skipped |-> 0]
  /\ pc = [t \in Tasks |-> "queued"]
  /\ idx = [t \in Tasks |-> 0]
  /\ position = [t \in Tasks |-> NoSlot]
  /\ result = [t \in Tasks |-> "none"]
  /\ tallied = [t \in Tasks |-> FALSE]
  /\ cleaned = [t \in Tasks |-> FALSE]
  /\ failedAt = [t \in Tasks |-> "none"]
  /\ available = <<>>
  /\ in_use = [i \in IDs |-> NoSlot]
  /\ baseDir \in {"absent", "blocked"}
  /\ dirExists = [i \in IDs |-> FALSE]
  /\ files = [i \in IDs |-> [f \in FileNames |-> NoFile]]
  /\ tar = [i \in IDs |-> NoTar]
  /\ failLog = [i \in IDs |-> 0]
  /\ outside = {}
  /\ downloads = 0
  /\ markedAtStart = {}
  /\ extractFailed = {}
  /\ report = NoReport

\* ---------------------------------------------------------------- PositionManager
\* list.sort() after append, lines 46-47: insert keeping ascending order
RECURSIVE SortedInsert(_, _)
SortedInsert(s, x) ==
  IF s = <<>> THEN <<x>>
  ELSE IF x <= Head(s) THEN <<x>> \o s
  ELSE <<Head(s)>> \o SortedInsert(Tail(s), x)

RECURSIVE SortAscending(_)
SortAscending(s) == IF s = <<>> THEN <<>> ELSE SortedInsert(SortAscending(Tail(s)), Head(s))

\* acquire, lines 34-40: the slot handed out
AcquirePos == IF available # <<>> THEN Head(available) ELSE 0

AcquireAvail == IF available # <<>> THEN Tail(available) ELSE available

AcquireInUseAlways(id) == [in_use EXCEPT ![id] = AcquirePos]

AcquireInUse(id) ==
  IF available # <<>> THEN [in_use EXCEPT ![id] = Head(available)] ELSE in_use

\* release, lines 42-47
ReleaseAvailUnsorted(id) ==
  IF in_use[id] # NoSlot THEN Append(available, in_use[id]) ELSE available

ReleaseAvail(id) ==
  IF in_use[id] # NoSlot THEN SortAscending(Append(available, in_use[id])) ELSE available

ReleaseInUse(id) == [in_use EXCEPT ![id] = NoSlot]

\* ---------------------------------------------------------------- coordinator
ZeroStats == [success |-> 0, failed |-> 0, skipped |-> 0]

Running(t) == pc[t] \notin {"queued", "done"}

NumRunning == Cardinality({t \in Tasks : Running(t)})

FreshTasks ==
  /\ pc' = [t \in Tasks |-> "queued"]
  /\ idx' = [t \in Tasks |-> 0]
  /\ position' = [t \in Tasks |-> NoSlot]
  /\ result' = [t \in Tasks |-> "none"]
  /\ tallied' = [t \in Tasks |-> FALSE]
  /\ cleaned' = [t \in Tasks |-> FALSE]
  /\ failedAt' = [t \in Tasks |-> "none"]

taskvars == << pc, idx, position, result, tallied, cleaned, failedAt >>

\* download_batch, lines 348-392: empty list returns at once; otherwise the
\* allocator and the tally are created and every list element is submitted
StartBatch ==
  /\ mpc = "start"
  /\ IF part_ids = <<>>
       THEN /\ mpc' = "done"
            /\ UNCHANGED << alloc, markedAtStart >>
       ELSE /\ mpc' = "pool"
            /\ available' = Range0(num_workers)
            /\ in_use' = [i \in IDs |-> NoSlot]
            /\ markedAtStart' = {i \in IDs : Marked(i)}
  /\ stats' = ZeroStats
  /\ downloads' = 0
  /\ extractFailed' = {}
  /\ UNCHANGED << inputs, report, run, summary, taskvars, fs >>

\* the exception a pipeline step raises inside the inner try: the finally
\* releases the slot (line 273), then the outer handler runs (line 275)
RaiseInner(t, where) ==
  /\ available' = ReleaseAvail(part_ids[t])
  /\ in_use' = ReleaseInUse(part_ids[t])
  /\ failedAt' = [failedAt EXCEPT ![t] = where]
  /\ pc' = [pc EXCEPT ![t] = "handler"]
  /\ extractFailed' = IF where = "extract" THEN extractFailed \cup {part_ids[t]}
                                          ELSE extractFailed

\* a worker thread takes the oldest queued task; lines 181-188 run before the try
StartTaskUnbounded(t) ==
  /\ mpc = "pool"
  /\ pc[t] = "queued"
  /\ \A u \in Tasks : u < t => pc[u] # "queued"
  /\ IF baseDir = "blocked"
       THEN /\ pc' = [pc EXCEPT ![t] = "done"]
            /\ result' = [result EXCEPT ![t] = "raised"]
            /\ UNCHANGED baseDir
       ELSE /\ pc' = [pc EXCEPT ![t] = "check"]
            /\ baseDir' = "dir"
            /\ UNCHANGED result
  /\ UNCHANGED << inputs, report, run, coord, idx, position, tallied, cleaned, failedAt, alloc,
                  dirExists, files, tar, failLog, outside, downloads, markedAtStart, extractFailed >>

StartTask(t) ==
  /\ mpc = "pool"
  /\ pc[t] = "queued"
  /\ \A u \in Tasks : u < t => pc[u] # "queued"
  /\ NumRunning < num_workers
  /\ IF baseDir = "blocked"
       THEN /\ pc' = [pc EXCEPT ![t] = "done"]
            /\ result' = [result EXCEPT ![t] = "raised"]
            /\ UNCHANGED baseDir
       ELSE /\ pc' = [pc EXCEPT ![t] = "check"]
            /\ baseDir' = "dir"
            /\ UNCHANGED result
  /\ UNCHANGED << inputs, report, run, coord, idx, position, tallied, cleaned, failedAt, alloc,
                  dirExists, files, tar, failLog, outside, downloads, markedAtStart, extractFailed >>

\* CheckMarker looking for the marker beside the item directory instead of
\* inside it: the file is never there, so nothing is skipped
CheckMarkerWrongPath(t) ==
  /\ mpc = "pool"
  /\ pc[t] = "check"
  /\ pc' = [pc EXCEPT ![t] = "stale"]
  /\ UNCHANGED << inputs, report, run, coord, idx, position, result, tallied, cleaned, failedAt,
                  alloc, fs, downloads, markedAtStart, extractFailed >>

\* lines 203-210: skip when the marker exists
CheckMarker(t) ==
  /\ mpc = "pool"
  /\ pc[t] = "check"
  /\ IF Marked(part_ids[t])
       THEN /\ pc' = [pc EXCEPT ![t] = "done"]
            /\ result' = [result EXCEPT ![t] = "skipped"]
       ELSE /\ pc' = [pc EXCEPT ![t] = "stale"]
            /\ UNCHANGED result
  /\ UNCHANGED << inputs, report, run, coord, idx, position, tallied, cleaned, failedAt,
                  alloc, fs, downloads, markedAtStart, extractFailed >>

\* line 213: os.path.exists(extract_dir)
CheckStale(t) ==
  /\ mpc = "pool"
  /\ pc[t] = "stale"
  /\ pc' = [pc EXCEPT ![t] = IF dirExists[part_ids[t]] THEN "rmtree" ELSE "clean"]
  /\ UNCHANGED << inputs, report, run, coord, idx, position, result, tallied, cleaned,
                  failedAt, alloc, fs, downloads, markedAtStart, extractFailed >>

\* RemoveStale that only logs the resume and leaves the directory in place
RemoveStaleKeep(t) ==
  /\ mpc = "pool"
  /\ pc[t] = "rmtree"
  /\ pc' = [pc EXCEPT ![t] = "clean"]
  /\ cleaned' = [cleaned EXCEPT ![t] = TRUE]
  /\ UNCHANGED << inputs, report, run, coord, idx, position, result, tallied, failedAt, alloc,
                  fs, downloads, markedAtStart, extractFailed >>

\* line 216: shutil.rmtree(extract_dir); raises when the directory is gone
RemoveStale(t) ==
  /\ mpc = "pool"
  /\ pc[t] = "rmtree"
  /\ IF dirExists[part_ids[t]]
       THEN /\ dirExists' = [dirExists EXCEPT ![part_ids[t]] = FALSE]
            /\ files' = [files EXCEPT ![part_ids[t]] = [f \in FileNames |-> NoFile]]
            /\ cleaned' = [cleaned EXCEPT ![t] = TRUE]
            /\ pc' = [pc EXCEPT ![t] = "clean"]
            /\ UNCHANGED failedAt
       ELSE /\ failedAt' = [failedAt EXCEPT ![t] = "cleanup"]
            /\ pc' = [pc EXCEPT ![t] = "handler"]
            /\ UNCHANGED << dirExists, files, cleaned >>
  /\ UNCHANGED << inputs, report, run, coord, idx, position, result, tallied, alloc,
                  baseDir, tar, failLog, outside, downloads, markedAtStart, extractFailed >>

\* lines 218-224: remove an existing archive file, then acquire a slot
CleanTarAcquire(t) ==
  /\ mpc = "pool"
  /\ pc[t] = "clean"
  /\ tar' = [tar EXCEPT ![part_ids[t]] = NoTar]
  /\ position' = [position EXCEPT ![t] = AcquirePos]
  /\ available' = AcquireAvail
  /\ in_use' = AcquireInUse(part_ids[t])
  /\ pc' = [pc EXCEPT ![t] = "get"]
  /\ UNCHANGED << inputs, report, run, coord, idx, result, tallied, cleaned, failedAt,
                  baseDir, dirExists, files, failLog, outside, downloads, markedAtStart, extractFailed >>

\* lines 227-245: session.get + raise_for_status; on success the archive file
\* is opened for writing (created or truncated)
Get(t) ==
  /\ mpc = "pool"
  /\ pc[t] = "get"
  /\ downloads' = downloads + 1
  /\ \/ /\ tar' = [tar EXCEPT ![part_ids[t]] = [st |-> "partial", run |-> run, owner |-> t]]
        /\ pc' = [pc EXCEPT ![t] = "chunks"]
        /\ UNCHANGED << alloc, failedAt, extractFailed >>
     \/ /\ RaiseInner(t, "download")
        /\ UNCHANGED tar
  /\ UNCHANGED << inputs, report, run, coord, idx, position, result, tallied, cleaned,
                  baseDir, dirExists, files, failLog, outside, markedAtStart >>

\* lines 246-249: the chunks are written; the stream may break part-way. The
\* bytes reach the file at tar_path only while this task's file is still there.
Chunks(t) ==
  /\ mpc = "pool"
  /\ pc[t] = "chunks"
  /\ \/ /\ tar' = [tar EXCEPT ![part_ids[t]] =
                     IF @.owner = t THEN [st |-> "full", run |-> run, owner |-> t] ELSE @]
        /\ pc' = [pc EXCEPT ![t] = "extract"]
        /\ UNCHANGED << alloc, failedAt, extractFailed >>
     \/ /\ RaiseInner(t, "download")
        /\ UNCHANGED tar
  /\ UNCHANGED << inputs, report, run, coord, idx, position, result, tallied, cleaned,
                  baseDir, dirExists, files, failLog, outside, downloads, markedAtStart >>

\* extract_tar, lines 114-119: the destination is created, then the archive is
\* opened and its headers read; a missing, truncated or corrupt archive raises
OpenArchive(t) ==
  /\ mpc = "pool"
  /\ pc[t] = "extract"
  /\ dirExists' = [dirExists EXCEPT ![part_ids[t]] = TRUE]
  /\ \/ /\ tar[part_ids[t]].st = "full"
        /\ idx' = [idx EXCEPT ![t] = 1]
        /\ pc' = [pc EXCEPT ![t] = IF members(part_ids[t]) = <<>> THEN "mark" ELSE "members"]
        /\ UNCHANGED << alloc, failedAt, extractFailed >>
     \/ /\ RaiseInner(t, "extract")
        /\ UNCHANGED idx
  /\ UNCHANGED << inputs, report, run, coord, position, result, tallied, cleaned,
                  baseDir, files, tar, failLog, outside, downloads, markedAtStart >>

\* lines 142-149: makedirs of the parent and the write itself, at the place the
\* path resolves to
WriteEntry(id, m, kind) ==
  LET loc == Landing(id, m)
      item == loc[Len(Root) + 1]
      fname == loc[Len(loc)]
  IN  IF LandsInItem(loc) /\ fname \in FileNames
        THEN /\ dirExists' = [dirExists EXCEPT ![item] = TRUE]
             /\ files' = [files EXCEPT ![item][fname] = [run |-> run, kind |-> kind]]
             /\ UNCHANGED outside
        ELSE /\ outside' = outside \cup {loc}
             /\ UNCHANGED << dirExists, files >>

\* one pass of the loop of lines 122-151 over members[idx]: the entry is
\* skipped by the guard, or saved as a JPEG, or written raw by the fallback, or
\* the fallback's own makedirs/open/write of lines 146-149 raises, which
\* nothing catches before line 152
ExtractMember(t) ==
  /\ mpc = "pool"
  /\ pc[t] = "members"
  /\ LET id == part_ids[t]
         m == members(id)[idx[t]]
         last == idx[t] = Len(members(id))
         advance == /\ idx' = [idx EXCEPT ![t] = IF last THEN 0 ELSE @ + 1]
                    /\ pc' = [pc EXCEPT ![t] = IF last THEN "mark" ELSE "members"]
                    /\ UNCHANGED << alloc, failedAt, extractFailed >>
     IN  IF ~PathAllowed(id, m)
           THEN /\ advance
                /\ UNCHANGED << dirExists, files, outside >>
           ELSE \/ /\ m.image
                   /\ WriteEntry(id, m, "jpeg")
                   /\ advance
                \/ /\ WriteEntry(id, m, "raw")
                   /\ advance
                \/ /\ RaiseInner(t, "extract")
                   /\ idx' = [idx EXCEPT ![t] = 0]
                   /\ UNCHANGED << dirExists, files, outside >>
  /\ UNCHANGED << inputs, report, run, coord, position, result, tallied, cleaned,
                  baseDir, tar, failLog, downloads, markedAtStart >>

\* lines 254-258: the completion marker is written into extract_dir
WriteMarkerNoDir(t) ==
  /\ mpc = "pool"
  /\ pc[t] = "mark"
  /\ IF TRUE
       THEN /\ files' = [files EXCEPT ![part_ids[t]][MarkerName] =
                           [run |-> run, kind |-> "marker"]]
            /\ pc' = [pc EXCEPT ![t] = "finish"]
            /\ UNCHANGED << alloc, failedAt, extractFailed >>
       ELSE /\ RaiseInner(t, "mark")
            /\ UNCHANGED files
  /\ UNCHANGED << inputs, report, run, coord, idx, position, result, tallied, cleaned,
                  baseDir, dirExists, tar, failLog, outside, downloads, markedAtStart >>

WriteMarker(t) ==
  /\ mpc = "pool"
  /\ pc[t] = "mark"
  /\ IF dirExists[part_ids[t]]
       THEN /\ files' = [files EXCEPT ![part_ids[t]][MarkerName] =
                           [run |-> run, kind |-> "marker"]]
            /\ pc' = [pc EXCEPT ![t] = "finish"]
            /\ UNCHANGED << alloc, failedAt, extractFailed >>
       ELSE /\ RaiseInner(t, "mark")
            /\ UNCHANGED files
  /\ UNCHANGED << inputs, report, run, coord, idx, position, result, tallied, cleaned,
                  baseDir, dirExists, tar, failLog, outside, downloads, markedAtStart >>

\* lines 260-273: optional removal of the archive, release of the slot, return
Finish(t) ==
  /\ mpc = "pool"
  /\ pc[t] = "finish"
  /\ tar' = IF delete_tar THEN [tar EXCEPT ![part_ids[t]] = NoTar] ELSE tar
  /\ available' = ReleaseAvail(part_ids[t])
  /\ in_use' = ReleaseInUse(part_ids[t])
  /\ result' = [result EXCEPT ![t] = "success"]
  /\ pc' = [pc EXCEPT ![t] = "done"]
  /\ position' = [position EXCEPT ![t] = NoSlot]
  /\ cleaned' = [cleaned EXCEPT ![t] = FALSE]
  /\ UNCHANGED << inputs, report, run, coord, idx, tallied, failedAt,
                  baseDir, dirExists, files, failLog, outside, downloads, markedAtStart, extractFailed >>

\* Handler without the clean-up of lines 285-290: the archive file stays
HandlerKeepTar(t) ==
  /\ mpc = "pool"
  /\ pc[t] = "handler"
  /\ \/ /\ failLog' = [failLog EXCEPT ![part_ids[t]] = @ + 1]
        /\ result' = [result EXCEPT ![t] = "failed"]
     \/ /\ result' = [result EXCEPT ![t] = "raised"]
        /\ UNCHANGED failLog
  /\ pc' = [pc EXCEPT ![t] = "done"]
  /\ position' = [position EXCEPT ![t] = NoSlot]
  /\ cleaned' = [cleaned EXCEPT ![t] = FALSE]
  /\ UNCHANGED << inputs, report, run, coord, idx, tallied, failedAt, alloc,
                  baseDir, dirExists, files, tar, outside, downloads, markedAtStart,
                  extractFailed >>

\* lines 275-292: the record is appended to failed_downloads.log (the append
\* itself may raise, and then nothing below it runs), the archive file is
\* removed if present, and the failure is returned
Handler(t) ==
  /\ mpc = "pool"
  /\ pc[t] = "handler"
  /\ \/ /\ failLog' = [failLog EXCEPT ![part_ids[t]] = @ + 1]
        /\ tar' = [tar EXCEPT ![part_ids[t]] = NoTar]
        /\ result' = [result EXCEPT ![t] = "failed"]
     \/ /\ result' = [result EXCEPT ![t] = "raised"]
        /\ UNCHANGED << failLog, tar >>
  /\ pc' = [pc EXCEPT ![t] = "done"]
  /\ position' = [position EXCEPT ![t] = NoSlot]
  /\ cleaned' = [cleaned EXCEPT ![t] = FALSE]
  /\ UNCHANGED << inputs, report, run, coord, idx, tallied, failedAt, alloc,
                  baseDir, dirExists, files, outside, downloads, markedAtStart, extractFailed >>

\* Tally with "if" for "elif": a skipped result, whose success is True, is
\* counted twice
TallySkippedTwice(t) ==
  /\ mpc = "pool"
  /\ pc[t] = "done"
  /\ ~tallied[t]
  /\ tallied' = [tallied EXCEPT ![t] = TRUE]
  /\ stats' = IF result[t] = "raised" THEN [stats EXCEPT !.failed = @ + 1]
              ELSE IF result[t] = "skipped"
                THEN [stats EXCEPT !.skipped = @ + 1, !.success = @ + 1]
              ELSE IF result[t] = "success" THEN [stats EXCEPT !.success = @ + 1]
              ELSE [stats EXCEPT !.failed = @ + 1]
  /\ failedAt' = [failedAt EXCEPT ![t] = "none"]
  /\ UNCHANGED << inputs, report, run, mpc, summary, pc, idx, position, result, cleaned,
                  alloc, fs, downloads, markedAtStart, extractFailed >>

\* Tally whose except clause only logs: a raised future is not counted
TallyNoExcept(t) ==
  /\ mpc = "pool"
  /\ pc[t] = "done"
  /\ ~tallied[t]
  /\ tallied' = [tallied EXCEPT ![t] = TRUE]
  /\ stats' = IF result[t] = "raised" THEN stats
              ELSE IF result[t] = "skipped" THEN [stats EXCEPT !.skipped = @ + 1]
              ELSE IF result[t] = "success" THEN [stats EXCEPT !.success = @ + 1]
              ELSE [stats EXCEPT !.failed = @ + 1]
  /\ failedAt' = [failedAt EXCEPT ![t] = "none"]
  /\ UNCHANGED << inputs, report, run, mpc, summary, pc, idx, position, result, cleaned,
                  alloc, fs, downloads, markedAtStart, extractFailed >>

\* lines 395-410: one future taken from as_completed and tallied (the record
\* of where the invocation raised is dropped with the future)
TallyRaises(t) ==
  /\ mpc = "pool"
  /\ pc[t] = "done"
  /\ ~tallied[t]
  /\ IF result[t] = "raised"
       THEN /\ mpc' = "aborted"
            /\ UNCHANGED << tallied, stats, failedAt >>
       ELSE /\ tallied' = [tallied EXCEPT ![t] = TRUE]
            /\ stats' = IF result[t] = "skipped" THEN [stats EXCEPT !.skipped = @ + 1]
                        ELSE IF result[t] = "success" THEN [stats EXCEPT !.success = @ + 1]
                        ELSE [stats EXCEPT !.failed = @ + 1]
            /\ failedAt' = [failedAt EXCEPT ![t] = "none"]
            /\ UNCHANGED mpc
  /\ UNCHANGED << inputs, report, run, summary, pc, idx, position, result, cleaned,
                  alloc, fs, downloads, markedAtStart, extractFailed >>

Tally(t) ==
  /\ mpc = "pool"
  /\ pc[t] = "done"
  /\ ~tallied[t]
  /\ tallied' = [tallied EXCEPT ![t] = TRUE]
  /\ stats' = IF result[t] = "raised" THEN [stats EXCEPT !.failed = @ + 1]
              ELSE IF result[t] = "skipped" THEN [stats EXCEPT !.skipped = @ + 1]
              ELSE IF result[t] = "success" THEN [stats EXCEPT !.success = @ + 1]
              ELSE [stats EXCEPT !.failed = @ + 1]
  /\ failedAt' = [failedAt EXCEPT ![t] = "none"]
  /\ UNCHANGED << inputs, report, run, mpc, summary, pc, idx, position, result, cleaned,
                  alloc, fs, downloads, markedAtStart, extractFailed >>

\* lines 412-420: the pool is drained, the summary printed, the tally returned
EndBatch ==
  /\ mpc = "pool"
  /\ \A t \in Tasks : tallied[t]
  /\ mpc' = "done"
  /\ summary' = TRUE
  /\ UNCHANGED << inputs, report, run, stats, taskvars, alloc, fs, downloads, markedAtStart, extractFailed >>

\* the program is started again on the same arguments: memory is fresh, the
\* filesystem is what the earlier process left
Restart(cut) ==
  /\ run' = run + 1
  /\ mpc' = "start"
  /\ summary' = FALSE
  /\ stats' = ZeroStats
  /\ FreshTasks
  /\ available' = <<>>
  /\ in_use' = [i \in IDs |-> NoSlot]
  /\ tar' = [i \in IDs |-> [tar[i] EXCEPT !.owner = 0]]
  /\ downloads' = 0
  /\ markedAtStart' = {}
  /\ extractFailed' = extractFailed \cup cut
  /\ UNCHANGED << inputs, report, baseDir, dirExists, files, failLog, outside >>

\* a finished program is run again
NextRun ==
  /\ mpc = "done"
  /\ run < MaxRuns
  /\ Restart({})

\* the process is interrupted while the pool is working, and run again later
Interrupt ==
  /\ mpc = "pool"
  /\ run < MaxRuns
  /\ Restart({part_ids[t] : t \in {u \in Tasks : pc[u] = "members"}})

CheckResumeStatusByDir ==
  /\ mpc \in {"start", "done"}
  /\ mpc' = "status"
  /\ report' =
       IF part_ids = <<>>
         THEN [NoReport EXCEPT !.at = mpc]
         ELSE [at |-> mpc,
               completed |-> SelectSeq(part_ids, LAMBDA i : dirExists[i]),
               pending |-> SelectSeq(part_ids, LAMBDA i : ~dirExists[i]),
               failed |-> failLog]
  /\ UNCHANGED << inputs, run, summary, stats, taskvars, alloc, fs, downloads,
                  markedAtStart, extractFailed >>

\* check_resume_status: the program run with --status reads the ID list, the
\* markers and the failure log, and prints what it found
CheckResumeStatus ==
  /\ mpc \in {"start", "done"}
  /\ mpc' = "status"
  /\ report' =
       IF part_ids = <<>>
         THEN [NoReport EXCEPT !.at = mpc]
         ELSE [at |-> mpc,
               completed |-> SelectSeq(part_ids, LAMBDA i : Marked(i)),
               pending |-> SelectSeq(part_ids, LAMBDA i : ~Marked(i)),
               failed |-> failLog]
  /\ UNCHANGED << inputs, run, summary, stats, taskvars, alloc, fs, downloads,
                  markedAtStart, extractFailed >>

\* the status run has printed its report and exits
StatusExit ==
  /\ mpc = "status"
  /\ mpc' = report.at
  /\ report' = NoReport
  /\ UNCHANGED << inputs, run, summary, stats, taskvars, alloc, fs, downloads,
                  markedAtStart, extractFailed >>

Next ==
  \/ StartBatch
  \/ \E t \in Tasks : StartTask(t)
  \/ \E t \in Tasks : CheckMarker(t)
  \/ \E t \in Tasks : CheckStale(t)
  \/ \E t \in Tasks : RemoveStale(t)
  \/ \E t \in Tasks : CleanTarAcquire(t)
  \/ \E t \in Tasks : Get(t)
  \/ \E t \in Tasks : Chunks(t)
  \/ \E t \in Tasks : OpenArchive(t)
  \/ \E t \in Tasks : ExtractMember(t)
  \/ \E t \in Tasks : WriteMarker(t)
  \/ \E t \in Tasks : Finish(t)
  \/ \E t \in Tasks : Handler(t)
  \/ \E t \in Tasks : Tally(t)
  \/ EndBatch
  \/ NextRun
  \/ Interrupt
  \/ CheckResumeStatus
  \/ StatusExit

Spec == Init /\ [][Next]_vars

\* one batch run and nothing else: download_batch from its first line to its
\* return
NextBatch ==
  \/ StartBatch
  \/ \E t \in Tasks : StartTask(t)
  \/ \E t \in Tasks : CheckMarker(t)
  \/ \E t \in Tasks : CheckStale(t)
  \/ \E t \in Tasks : RemoveStale(t)
  \/ \E t \in Tasks : CleanTarAcquire(t)
  \/ \E t \in Tasks : Get(t)
  \/ \E t \in Tasks : Chunks(t)
  \/ \E t \in Tasks : OpenArchive(t)
  \/ \E t \in Tasks : ExtractMember(t)
  \/ \E t \in Tasks : WriteMarker(t)
  \/ \E t \in Tasks : Finish(t)
  \/ \E t \in Tasks : Handler(t)
  \/ \E t \in Tasks : Tally(t)
  \/ EndBatch

\* a batch of PoolItems items on MaxWorkers workers into a fresh target
\* directory
InitPool ==
  /\ part_ids \in {s \in SeqsUpTo(PoolItems) : Len(s) = PoolItems}
  /\ num_workers = MaxWorkers
  /\ delete_tar = TRUE
  /\ run = 1
  /\ mpc = "start"
  /\ summary = FALSE
  /\ stats = ZeroStats
  /\ pc = [t \in Tasks |-> "queued"]
  /\ idx = [t \in Tasks |-> 0]
  /\ position = [t \in Tasks |-> NoSlot]
  /\ result = [t \in Tasks |-> "none"]
  /\ tallied = [t \in Tasks |-> FALSE]
  /\ cleaned = [t \in Tasks |-> FALSE]
  /\ failedAt = [t \in Tasks |-> "none"]
  /\ available = <<>>
  /\ in_use = [i \in IDs |-> NoSlot]
  /\ baseDir = "absent"
  /\ dirExists = [i \in IDs |-> FALSE]
  /\ files = [i \in IDs |-> [f \in FileNames |-> NoFile]]
  /\ tar = [i \in IDs |-> NoTar]
  /\ failLog = [i \in IDs |-> 0]
  /\ outside = {}
  /\ downloads = 0
  /\ markedAtStart = {}
  /\ extractFailed = {}
  /\ report = NoReport

SpecPool == InitPool /\ [][NextBatch]_vars

\* PositionManager on its own: callers acquire and release in any order, with
\* nothing to cap how many hold a slot at once
PMAcquire(t) ==
  /\ mpc = "alloc"
  /\ pc[t] = "queued"
  /\ position' = [position EXCEPT ![t] = AcquirePos]
  /\ available' = AcquireAvail
  /\ in_use' = AcquireInUse(part_ids[t])
  /\ pc' = [pc EXCEPT ![t] = "get"]
  /\ UNCHANGED << inputs, report, run, coord, idx, result, tallied, cleaned, failedAt,
                  fs, downloads, markedAtStart, extractFailed >>

PMRelease(t) ==
  /\ mpc = "alloc"
  /\ available' = ReleaseAvail(part_ids[t])
  /\ in_use' = ReleaseInUse(part_ids[t])
  /\ position' = [position EXCEPT ![t] = NoSlot]
  /\ pc' = [pc EXCEPT ![t] = "queued"]
  /\ UNCHANGED << inputs, report, run, coord, idx, result, tallied, cleaned, failedAt,
                  fs, downloads, markedAtStart, extractFailed >>

NextAlloc ==
  \/ \E t \in Tasks : PMAcquire(t)
  \/ \E t \in Tasks : PMRelease(t)

\* PositionManager(num_workers) as constructed, and its callers
InitAlloc ==
  /\ part_ids \in SeqsUpTo(PoolItems)
  /\ num_workers \in 1..MaxWorkers
  /\ delete_tar = TRUE
  /\ run = 1
  /\ mpc = "alloc"
  /\ summary = FALSE
  /\ stats = ZeroStats
  /\ pc = [t \in Tasks |-> "queued"]
  /\ idx = [t \in Tasks |-> 0]
  /\ position = [t \in Tasks |-> NoSlot]
  /\ result = [t \in Tasks |-> "none"]
  /\ tallied = [t \in Tasks |-> FALSE]
  /\ cleaned = [t \in Tasks |-> FALSE]
  /\ failedAt = [t \in Tasks |-> "none"]
  /\ available = Range0(num_workers)
  /\ in_use = [i \in IDs |-> NoSlot]
  /\ baseDir = "absent"
  /\ dirExists = [i \in IDs |-> FALSE]
  /\ files = [i \in IDs |-> [f \in FileNames |-> NoFile]]
  /\ tar = [i \in IDs |-> NoTar]
  /\ failLog = [i \in IDs |-> 0]
  /\ outside = {}
  /\ downloads = 0
  /\ markedAtStart = {}
  /\ extractFailed = {}
  /\ report = NoReport

SpecAlloc == InitAlloc /\ [][NextAlloc]_vars

\* the threads of the pool and the coordinator keep being scheduled
LiveSpec == Init /\ [][NextBatch]_vars /\ WF_vars(NextBatch)


\* ---------------------------------------------------------------- properties
Total == stats.success + stats.failed + stats.skipped

NumTallied == Cardinality({t \in Tasks : tallied[t]})

With(r) == Cardinality({t \in Tasks : tallied[t] /\ result[t] \in r})

InPipeline(t) == pc[t] \in {"get", "chunks", "extract", "members", "mark", "finish"}

\* the entries of the served archive that extraction writes into the item's
\* own directory
OwnFiles(id) ==
  {Landing(id, members(id)[k])[Len(Root) + 2] :
     k \in {j \in 1..Len(members(id)) :
              /\ PathAllowed(id, members(id)[j])
              /\ LandsInItem(Landing(id, members(id)[j]))
              /\ Landing(id, members(id)[j])[Len(Root) + 1] = id}}

FullyExtracted(id) ==
  /\ dirExists[id]
  /\ \A f \in OwnFiles(id) : files[id][f].run > 0

\* C1: at every point of a batch the three counters add up to the number of
\* futures tallied so far (each tallied invocation, returned or raised, has
\* incremented exactly one counter once), and when download_batch returns
\* they add up to N = len(part_ids).
C1_TallyAddsUp ==
  /\ mpc = "pool" => Total = NumTallied
  /\ mpc = "done" => Total = Len(part_ids)

C1_Witness ==
  /\ mpc = "done"
  /\ summary
  /\ num_workers = 2
  /\ Len(part_ids) = 2
  /\ stats.skipped = 1
  /\ stats.failed = 1

\* C2: in every reachable state an item's completion marker exists only if
\* every entry the archive holds for the item's directory has been extracted
\* into the directory that holds the marker.
C2_MarkerImpliesExtracted ==
  \A id \in IDs : Marked(id) => FullyExtracted(id)

\* C3: an item that carried a marker when the batch started is never taken past
\* the marker check and comes back skipped; when every submitted item carried
\* one, the batch issues no GET and returns skipped = N, success = failed = 0.
C3_SecondRunSkips ==
  /\ \A t \in Tasks :
       (mpc \in {"pool", "done"} /\ part_ids[t] \in markedAtStart) =>
          /\ pc[t] \in {"queued", "check", "done"}
          /\ pc[t] = "done" => result[t] = "skipped"
  /\ (mpc = "done" /\ summary /\ \A t \in Tasks : part_ids[t] \in markedAtStart) =>
          /\ downloads = 0
          /\ stats = [success |-> 0, failed |-> 0, skipped |-> Len(part_ids)]

C3_Witness ==
  /\ run = 2
  /\ mpc = "done"
  /\ summary
  /\ Len(part_ids) = 2
  /\ part_ids[1] # part_ids[2]
  /\ \A t \in Tasks : part_ids[t] \in markedAtStart
  /\ stats.skipped = 2

\* C4: while a pipeline is between the start of its download and its return,
\* the item's directory holds no file written by an earlier run, and when the
\* download starts no archive file of an earlier run is left.
C4_CleanSlate ==
  \A t \in Tasks :
    /\ (mpc = "pool" /\ InPipeline(t)) =>
         \A f \in FileNames : files[part_ids[t]][f].run \in {0, run}
    /\ (mpc = "pool" /\ pc[t] = "get") => tar[part_ids[t]].run \in {0, run}

C4_Witness ==
  \E t \in Tasks :
    /\ run = 2
    /\ mpc = "pool"
    /\ cleaned[t]
    /\ pc[t] = "members"
    /\ idx[t] = Len(members(part_ids[t]))
    /\ \E f \in FileNames : files[part_ids[t]][f].run = 2

\* C5: an item whose extraction raised or was cut short part-way through its
\* entries in a run is not seen as Completed by the next run: when that run
\* starts the item carries no marker (so the run does not skip it).
C5_FailedExtractionNotCompleted ==
  \A id \in IDs :
    (mpc = "start" /\ run > 1 /\ id \in extractFailed) => ~Marked(id)

\* C6: once an item's marker exists, no step deletes it or writes it again.
C6_MarkerNeverTouched ==
  [][\A id \in IDs : Marked(id) => files'[id][MarkerName] = files[id][MarkerName]]_vars

\* C7: no two pipeline invocations that are running at the same time carry the
\* same item ID.
C7_NoTwoPipelinesOnOneItem ==
  \A t, u \in Tasks : (t # u /\ Running(t) /\ Running(u)) => part_ids[t] # part_ids[u]

\* C8: when the handler of a pipeline whose download failed returns its
\* result, it has appended one failure record, the result is a failure, and
\* the item has neither an archive file nor a completion marker.
C8_DownloadFailurePath ==
  [][\A t \in Tasks :
       (pc[t] = "handler" /\ failedAt[t] = "download" /\ result'[t] = "failed") =>
          /\ failLog'[part_ids[t]] = failLog[part_ids[t]] + 1
          /\ tar'[part_ids[t]].st = "none"
          /\ ~Marked(part_ids[t])'
     ]_vars

C10_RaisedCountsAsFailed ==
  /\ mpc \in {"pool", "done"} =>
       /\ stats.failed = With({"failed", "raised"})
       /\ stats.success = With({"success"})
       /\ stats.skipped = With({"skipped"})
  /\ (mpc = "done" /\ part_ids # <<>>) =>
       /\ summary
       /\ \A t \in Tasks : pc[t] = "done" /\ tallied[t] /\ result[t] # "none"

C10_Witness ==
  /\ mpc = "done"
  /\ summary
  /\ \E t, u \in Tasks :
       /\ result[t] = "raised"
       /\ result[u] = "success"
  /\ stats = [success |-> 1, failed |-> 1, skipped |-> 0]

\* the slot a pipeline shows its progress bar on, from acquire to release
HoldsSlot(t) == pc[t] \in {"get", "chunks", "extract", "members", "mark", "finish"}

Ascending(s) == \A j, k \in 1..Len(s) : j < k => s[j] < s[k]

InSeq(x, s) == \E k \in 1..Len(s) : s[k] = x

TarExists(id) == tar[id].st # "none"

\* C11: in the first run on an empty target directory the failure log holds at
\* least as many records as there are items counted failed.
C11_EveryFailureRecorded ==
  (run = 1 /\ mpc \in {"pool", "done"}) =>
     stats.failed <= failLog["n001"] + failLog["n002"]

\* C12: at every point of a batch the number of pipeline invocations that have
\* started and not yet ended is at most num_workers.
C12_AtMostWorkersRunning ==
  mpc = "pool" => NumRunning <= num_workers

C12_Witness ==
  /\ mpc = "pool"
  /\ NumRunning = num_workers
  /\ \E t \in Tasks : pc[t] = "queued"

\* C15: the free list is in ascending order before and after every step; an
\* acquire on a non-empty free list hands out its smallest element and takes
\* it off the list; a release puts the slot recorded for the owner back on
\* the list and clears the record.
C15_LowestFreeSlotFirst ==
  [][/\ Ascending(available)
     /\ Ascending(available')
     /\ \A t \in Tasks :
          /\ (pc[t] = "clean" /\ pc'[t] = "get" /\ available # <<>>) =>
               /\ \A k \in 1..Len(available) : position'[t] <= available[k]
               /\ InSeq(position'[t], available)
               /\ ~InSeq(position'[t], available')
               /\ in_use'[part_ids[t]] = position'[t]
          /\ (HoldsSlot(t) /\ ~HoldsSlot(t)' /\ mpc' = "pool"
                /\ in_use[part_ids[t]] # NoSlot) =>
               /\ InSeq(in_use[part_ids[t]], available')
               /\ in_use'[part_ids[t]] = NoSlot
    ]_vars

C15_Witness ==
  /\ mpc = "pool"
  /\ num_workers = 2
  /\ available = <<1>>
  /\ \E t, u \in Tasks :
       /\ pc[t] = "done"
       /\ result[t] \in {"success", "failed"}
       /\ HoldsSlot(u)
       /\ position[u] = 0

\* C16 as written: every item is in exactly one of Completed (directory and
\* marker), Interrupted (directory, no marker), PartialArchive (archive file
\* and no completed output) and Pending (none of these).
C16_Completed(id) == dirExists[id] /\ Marked(id)

C16_Interrupted(id) == dirExists[id] /\ ~Marked(id)

C16_PartialArchive(id) == TarExists(id) /\ ~C16_Completed(id)

C16_Pending(id) ==
  ~C16_Completed(id) /\ ~C16_Interrupted(id) /\ ~C16_PartialArchive(id)

C17_NothingWrittenOutside ==
  outside = {}

\* C20: with the archive downloaded in full and opened, a pass of the
\* extraction loop over one entry never ends the extraction of the item with
\* an error.
C20_EntryErrorNeverFailsItem ==
  [][\A t \in Tasks :
       (pc[t] = "members" /\ tar[part_ids[t]].st = "full" /\ tar[part_ids[t]].owner = t)
         => pc'[t] # "handler"]_vars

\* C18: a status run changes nothing on disk; its completed list holds exactly
\* the listed IDs whose marker exists and its pending list exactly the listed
\* IDs whose marker does not, so the two lists split the ID list between them,
\* whatever the failure log says about an ID.
C18_StatusIsPureRead ==
  [][(mpc = "status" \/ mpc' = "status") =>
       /\ UNCHANGED fs
       /\ mpc' = "status" =>
            /\ \A id \in IDs :
                 /\ InSeq(id, report'.completed) <=> (InSeq(id, part_ids) /\ Marked(id))
                 /\ InSeq(id, report'.pending) <=> (InSeq(id, part_ids) /\ ~Marked(id))
            /\ Len(report'.completed) + Len(report'.pending) = Len(part_ids)
    ]_vars

C18_Witness ==
  /\ mpc = "status"
  /\ report.pending # <<>>
  /\ \E k \in 1..Len(report.completed) : report.failed[report.completed[k]] > 0

\* C13: every slot handed out is one of 0 .. num_workers-1, and no two
\* pipelines that are between their acquire and their release hold the same
\* slot.
C13_SlotsDistinct ==
  \A t \in Tasks :
    HoldsSlot(t) =>
      /\ position[t] \in 0..(num_workers - 1)
      /\ \A u \in Tasks : (u # t /\ HoldsSlot(u)) => position[u] # position[t]

\* C14: a caller that wants a slot can always take its acquire step; on an
\* empty free list the step returns 0 and leaves the free list and the
\* assignments as they were, otherwise it returns a slot that was on the free
\* list.
C14_AcquireNeverBlocks ==
  [][\A t \in Tasks :
       /\ (mpc = "alloc" /\ pc[t] = "queued") => ENABLED PMAcquire(t)
       /\ (pc[t] # "get" /\ pc'[t] = "get") =>
            IF available = <<>>
              THEN position'[t] = 0 /\ UNCHANGED alloc
              ELSE InSeq(position'[t], available)
    ]_vars

C14_Witness ==
  /\ available = <<>>
  /\ \E t \in Tasks :
       /\ pc[t] = "get"
       /\ position[t] = 0
       /\ in_use[part_ids[t]] # 0
       /\ \E u \in Tasks : u # t /\ pc[u] = "get" /\ position[u] = 0 /\ in_use[part_ids[u]] = 0

\* C19: a batch over a non-empty ID list that has started its pool always
\* comes to its end: every item tallied, the summary printed, the counts
\* returned.
C19_BatchReachesSummary ==
  (mpc = "pool") ~> (mpc = "done" /\ summary /\ \A t \in Tasks : tallied[t])

C19_Witness ==
  /\ mpc = "done"
  /\ summary
  /\ Len(part_ids) = 2
  /\ With({"raised", "failed"}) >= 1
  /\ With({"success", "skipped"}) >= 1

\* C21: in a batch over a non-empty list, whenever no pipeline is between
\* its acquire and its release (and so when the batch has finished), no slot
\* is recorded as in use and the free list is exactly 0 .. num_workers-1.
C21_SlotsConserved ==
  (mpc \in {"pool", "done"} /\ part_ids # <<>> /\ \A t \in Tasks : ~HoldsSlot(t)) =>
     /\ \A id \in IDs : in_use[id] = NoSlot
     /\ available = Range0(num_workers)

====
